---- MODULE Spec2Model ----
(***************************************************************************)
(* A model of the reactQuery-demo repository.                              *)
(*                                                                         *)
(* Six programs are modelled, each with its own next-state relation:       *)
(*                                                                         *)
(*   Spec             the ids query of the Todo component                  *)
(*                    (src/unnamed/part_000, useTodoIds of                 *)
(*                    src/src/App.tsx) under the QueryClient defaults of   *)
(*                    src/src/main.tsx, with its retries and its age;      *)
(*   SpecTodo         the Todo component with the ids query and the        *)
(*                    per-todo queries of useTodos, fetch by fetch;        *)
(*   SpecUseTodos     one call of useTodos, for any argument;              *)
(*   SpecRegisterForm RegisterForm (src/src/App.tsx, lines 47-165);        *)
(*   SpecAddTodo      the AddTodo component of src/README.md, lines        *)
(*                    442-478;                                             *)
(*   SpecOptimistic   the optimistic-update mutation of src/README.md,     *)
(*                    lines 496-517, next to the ['todos'] list query.     *)
(*                                                                         *)
(* The repository only configures @tanstack/react-query and                *)
(* react-hook-form; what a configured option or a called method does is    *)
(* the library's behaviour, modelled here after the library functions      *)
(* named in the comments (query-core: Query, QueryObserver, Retryer,       *)
(* QueryClient, Mutation; react-hook-form: createFormControl,              *)
(* validateField).                                                         *)
(***************************************************************************)
EXTENDS Integers, Sequences, FiniteSets, TLC

\* Query data is optional: Undef when nothing is cached (getQueryData returns
\* undefined), Def(x) when x is cached, and Val gives x back.
Undef == <<>>
Def(x) == <<x>>
Val(o) == o[1]

Min(a, b) == IF a < b THEN a ELSE b

(***************************************************************************)
(* Bounds of the model.                                                    *)
(***************************************************************************)
\* Todo ids the server may return are 1..MaxId.
MaxId == 2
\* The title typed into AddTodo's input has at most MaxLen characters.
MaxLen == 2
\* AddTodo's mutation.mutate is called at most MaxAdd times.
MaxAdd == 2
\* The optimistic mutation is started at most MaxMut times.
MaxMut == 2
\* The array passed to useTodos has at most MaxArgLen elements.
MaxArgLen == 3
\* RegisterForm's onSubmit is invoked at most MaxSubmit times.
MaxSubmit == 2

(***************************************************************************)
(* src/src/main.tsx: the QueryClient's default options for queries.        *)
(***************************************************************************)
retry == 5
retryDelay == 1000
refetchOnMountTrue == TRUE
refetchOnMount == FALSE
staleTime == 1000 * 60 * 5
refetchOnReconnect == TRUE
refetchOnWindowFocus == TRUE

VARIABLES
  \* ---- Todo component and the ids query ['todos'] (Spec) ----
  mounted,        \* the Todo component is mounted: the query has an observer
  online,         \* onlineManager.isOnline()
  focused,        \* focusManager.isFocused()
  idsStatus,      \* query.state.status: "pending" | "error" | "success"
  idsFetchStatus, \* query.state.fetchStatus: "idle" | "fetching" | "paused"
  idsData,        \* query.state.data: Undef or Def(the list of ids)
  idsAge,         \* ms since query.state.dataUpdatedAt, capped at staleTime
  phase,          \* the retryer: "none" | "request" | "sleep" | "paused"
  failureCount,   \* the retryer's failureCount: failed attempts of this fetch
  wait,           \* ms left of the retry delay while phase = "sleep"
  retryCancelled, \* the retryer's isRetryCancelled
  attempts,       \* history: calls of queryFn in the current (or last) fetch
  slept,          \* history: ms since the last failed attempt, capped
  trigger         \* history: what the last step was: "mount" | "focus" |
                  \*   "reconnect" (the events that may start a fetch),
                  \*   "resolved" | "rejected" (queryFn's promise settled),
                  \*   "none" (anything else)

VARIABLES
  \* ---- the AddTodo component (SpecAddTodo) ----
  title,          \* useState(''): the input's value, a sequence of characters
  addMuts,        \* the mutations started by mutation.mutate, oldest first:
                  \*   [status: "pending" | "success" | "error", variables]
  invalidations,  \* history: calls of queryClient.invalidateQueries(['todos'])
  addEvent        \* history: the last step: "type" | "submit" | "success" |
                  \*   "error" | "none"

addVars == <<title, addMuts, invalidations, addEvent>>

VARIABLES
  \* ---- the optimistic addTodo mutation and the list query (SpecOptimistic)
  server,         \* the todos the server holds, in order
  cache,          \* the data of query ['todos']: Undef or Def(list of todos)
  listFetch,      \* the fetch of ['todos']: [phase: "idle" | "sent" |
                  \*   "replied", resp: the list the server replied with]
  listInvalidated,\* query.state.isInvalidated of ['todos']
  muts,           \* the mutations, by number: [pc, title, previousTodos,
                  \*   todo, cancelled]; pc is "idle" (not started), "sent"
                  \*   (onMutate done, POST under way), "ok" | "failed" (the
                  \*   server has answered), "success" | "error" (settled)
  now,            \* the last value Date.now() returned
  fetchBefore     \* history: the mutations whose onMutate ran while the fetch
                  \*   now in flight was already in flight

optVars == <<server, cache, listFetch, listInvalidated, muts, now,
             fetchBefore>>

VARIABLES
  \* ---- one call of useTodos (SpecUseTodos) ----
  utIds,          \* the argument `ids` of the call: Undef, or Def(a list
                  \*   whose elements are Undef or Def(a number))
  utQueries,      \* Undef before the call; then Def(the `queries` array that
                  \*   useTodos passed to useQueries)
  utCache,        \* the query cache, by the id in the key ["todo", id]:
                  \*   [status: "none" (no such query) | "pending" |
                  \*   "success" | "error", data]
  utCalls         \* history: the arguments getTodo was called with

utVars == <<utIds, utQueries, utCache, utCalls>>

VARIABLES
  \* ---- RegisterForm (SpecRegisterForm) ----
  values,         \* the inputs' values: [name, email, password: strings;
                  \*   age: Undef (empty input) or Def(a number)]
  errors,         \* formState.errors: per field its message, "" for none
  isSubmitting,   \* formState.isSubmitting
  isSubmitted,    \* formState.isSubmitted
  subs,           \* the invocations of onSubmit, oldest first, each at
                  \*   "waiting" (the 1500 ms timer runs), "alert" (the alert
                  \*   is open) or "done" (onSubmit has returned)
  resets,         \* history: calls of reset()
  formEvent       \* history: the last step: "change" | "submit" | "timer" |
                  \*   "dismiss" | "none"

formVars == <<values, errors, isSubmitting, isSubmitted, subs, resets,
              formEvent>>

VARIABLES
  \* ---- the Todo component with all its queries (SpecTodo) ----
  page,           \* [mounted: the component is mounted; online; focused]
  idsQuery,       \* the query ['todos']: [fetchStatus, data, stale,
                  \*   status]; data is Undef or Def(...), stale says that
                  \*   the data is staleTime old or older
  todoQuery       \* by id, the query ["todo", id]: [fetchStatus, data,
                  \*   stale]; the component reads nothing else of it

todoVars == <<page, idsQuery, todoQuery>>

appVars == <<mounted, online, focused, idsStatus, idsFetchStatus, idsData,
             idsAge, phase, failureCount, wait, retryCancelled, attempts,
             slept, trigger>>

vars == <<appVars, addVars, optVars, utVars, formVars, todoVars>>

(***************************************************************************)
(* What getTodosIds may resolve to: a list of distinct ids.                *)
(***************************************************************************)
Ids == 1..MaxId

IdLists ==
  UNION {{s \in [1..n -> Ids] : \A i, j \in 1..n : i # j => s[i] # s[j]} :
         n \in 0..MaxId}

(***************************************************************************)
(* Staleness (Query.isStaleByTime): no data, or data at least staleTime    *)
(* old.                                                                    *)
(***************************************************************************)
IsStale == idsData = Undef \/ idsAge >= staleTime

\* QueryObserver shouldFetchOn(query, options, field): a refetch flag set to
\* true refetches stale data only.
ShouldFetchOnAlways(flag) == flag

ShouldFetchOn(flag) == flag /\ IsStale

\* QueryObserver shouldFetchOnMount: load when there is no data, else follow
\* refetchOnMount.
ShouldFetchOnMount ==
  idsData = Undef \/ (idsData # Undef /\ ShouldFetchOn(refetchOnMount))

\* Retryer canContinue(): focused and online (networkMode "online").
CanContinue(f, o) == f /\ o

(***************************************************************************)
(* Query.fetch without cancelRefetch, as the observer calls it on mount,   *)
(* focus and reconnect.  A fetch already under way is joined (and its      *)
(* retries resumed: retryer.continueRetry()); otherwise a new fetch        *)
(* starts, paused when offline (Retryer.start: canStart() ? run() :        *)
(* pause().then(run)).  `o` is the online state the fetch sees.            *)
(***************************************************************************)
FetchState(o) ==
  IF idsFetchStatus # "idle"
  THEN [status |-> idsStatus, fetchStatus |-> idsFetchStatus,
        phase |-> phase, failureCount |-> failureCount, wait |-> wait,
        retryCancelled |-> FALSE, attempts |-> attempts, slept |-> slept]
  ELSE [status |-> IF idsData = Undef THEN "pending" ELSE idsStatus,
        fetchStatus |-> IF o THEN "fetching" ELSE "paused",
        phase |-> IF o THEN "request" ELSE "paused",
        failureCount |-> 0, wait |-> 0, retryCancelled |-> FALSE,
        attempts |-> IF o THEN 1 ELSE 0, slept |-> 0]

\* The retryer's state as it is, for an event that starts no fetch.
KeepState ==
  [status |-> idsStatus, fetchStatus |-> idsFetchStatus, phase |-> phase,
   failureCount |-> failureCount, wait |-> wait,
   retryCancelled |-> retryCancelled, attempts |-> attempts, slept |-> slept]

\* The fetch ends in error (Retryer reject -> Query dispatch "error").
Rejected(s) ==
  [s EXCEPT !.status = "error", !.fetchStatus = "idle", !.phase = "none"]

\* The next attempt runs (Retryer run()).
Running(s) ==
  [s EXCEPT !.fetchStatus = "fetching", !.phase = "request",
            !.attempts = s.attempts + 1]

(***************************************************************************)
(* retryer.continue() after a focus or reconnect event: a paused retryer   *)
(* goes on when canContinue() holds.  A fetch paused before its first      *)
(* attempt runs it; one paused after a retry delay rejects when its        *)
(* retries were cancelled and runs the next attempt otherwise.             *)
(***************************************************************************)
Continued(s, f, o) ==
  IF s.phase = "paused" /\ CanContinue(f, o)
  THEN IF s.attempts > 0 /\ s.retryCancelled THEN Rejected(s) ELSE Running(s)
  ELSE s

SetState(s) ==
  /\ idsStatus' = s.status
  /\ idsFetchStatus' = s.fetchStatus
  /\ phase' = s.phase
  /\ failureCount' = s.failureCount
  /\ wait' = s.wait
  /\ retryCancelled' = s.retryCancelled
  /\ attempts' = s.attempts
  /\ slept' = s.slept

(***************************************************************************)
(* The Todo component mounts: useTodoIds subscribes an observer            *)
(* (QueryObserver.onSubscribe: shouldFetchOnMount ? executeFetch() :       *)
(* updateResult()).                                                        *)
(***************************************************************************)
Mount ==
  /\ ~mounted
  /\ mounted' = TRUE
  /\ trigger' = "mount"
  /\ SetState(IF ShouldFetchOnMount THEN FetchState(online) ELSE KeepState)
  /\ UNCHANGED <<online, focused, idsData, idsAge>>
  /\ UNCHANGED <<addVars, optVars, utVars, formVars, todoVars>>

(***************************************************************************)
(* The Todo component unmounts (Query.removeObserver): with no observer    *)
(* left and a fetch under way whose queryFn did not take the abort signal, *)
(* retryer.cancelRetry(): the attempt in flight goes on, no retry follows. *)
(***************************************************************************)
Unmount ==
  /\ mounted
  /\ mounted' = FALSE
  /\ trigger' = "none"
  /\ retryCancelled' = (IF idsFetchStatus # "idle" THEN TRUE ELSE retryCancelled)
  /\ UNCHANGED <<online, focused, idsStatus, idsFetchStatus, idsData, idsAge,
                 phase, failureCount, wait, attempts, slept>>
  /\ UNCHANGED <<addVars, optVars, utVars, formVars, todoVars>>

\* The window loses focus.
Blur ==
  /\ focused
  /\ focused' = FALSE
  /\ trigger' = "none"
  /\ UNCHANGED <<mounted, online, idsStatus, idsFetchStatus, idsData, idsAge,
                 phase, failureCount, wait, retryCancelled, attempts, slept>>
  /\ UNCHANGED <<addVars, optVars, utVars, formVars, todoVars>>

(***************************************************************************)
(* The window gains focus (QueryCache.onFocus -> Query.onFocus): an        *)
(* observer for which shouldFetchOnWindowFocus() holds refetches, then     *)
(* retryer.continue().                                                     *)
(***************************************************************************)
Focus ==
  /\ ~focused
  /\ focused' = TRUE
  /\ trigger' = "focus"
  /\ SetState(Continued(IF mounted /\ ShouldFetchOn(refetchOnWindowFocus)
                        THEN FetchState(online) ELSE KeepState,
                        TRUE, online))
  /\ UNCHANGED <<mounted, online, idsData, idsAge>>
  /\ UNCHANGED <<addVars, optVars, utVars, formVars, todoVars>>

\* The network goes away.
GoOffline ==
  /\ online
  /\ online' = FALSE
  /\ trigger' = "none"
  /\ UNCHANGED <<mounted, focused, idsStatus, idsFetchStatus, idsData, idsAge,
                 phase, failureCount, wait, retryCancelled, attempts, slept>>
  /\ UNCHANGED <<addVars, optVars, utVars, formVars, todoVars>>

(***************************************************************************)
(* The network comes back (QueryCache.onOnline -> Query.onOnline): an      *)
(* observer for which shouldFetchOnReconnect() holds refetches, then       *)
(* retryer.continue().                                                     *)
(***************************************************************************)
Reconnect ==
  /\ ~online
  /\ online' = TRUE
  /\ trigger' = "reconnect"
  /\ SetState(Continued(IF mounted /\ ShouldFetchOn(refetchOnReconnect)
                        THEN FetchState(TRUE) ELSE KeepState,
                        focused, TRUE))
  /\ UNCHANGED <<mounted, focused, idsData, idsAge>>
  /\ UNCHANGED <<addVars, optVars, utVars, formVars, todoVars>>

(***************************************************************************)
(* getTodosIds resolves with `ids` (Query dispatch "success").             *)
(***************************************************************************)
RequestSucceeds(ids) ==
  /\ phase = "request"
  /\ idsData' = Def(ids)
  /\ idsAge' = 0
  /\ idsStatus' = "success"
  /\ idsFetchStatus' = "idle"
  /\ phase' = "none"
  /\ failureCount' = 0
  /\ wait' = 0
  /\ retryCancelled' = FALSE
  /\ trigger' = "resolved"
  /\ UNCHANGED <<mounted, online, focused, attempts, slept>>
  /\ UNCHANGED <<addVars, optVars, utVars, formVars, todoVars>>

(***************************************************************************)
(* getTodosIds rejects (the Retryer's catch): retry when failureCount <    *)
(* retry and the retries are not cancelled, after retryDelay ms; reject    *)
(* otherwise.                                                              *)
(***************************************************************************)
ShouldRetryOnceMore == failureCount <= retry

ShouldRetry == failureCount < retry

RequestFails ==
  /\ phase = "request"
  /\ trigger' = "rejected"
  /\ IF retryCancelled \/ ~ShouldRetry
     THEN SetState(Rejected(KeepState))
     ELSE SetState([KeepState EXCEPT !.failureCount = failureCount + 1,
                                     !.phase = "sleep",
                                     !.wait = retryDelay,
                                     !.slept = 0])
  /\ UNCHANGED <<mounted, online, focused, idsData, idsAge>>
  /\ UNCHANGED <<addVars, optVars, utVars, formVars, todoVars>>

(***************************************************************************)
(* Time passes.  While a retry delay runs, time is counted in halves of    *)
(* retryDelay up to the timer's end; otherwise in the steps of IdleSteps,  *)
(* which put the age of the data on both sides of staleTime.               *)
(***************************************************************************)
SleepSteps == {retryDelay \div 2, retryDelay}
IdleSteps == {staleTime \div 2, staleTime - retryDelay}

Advance(d) ==
  /\ IF phase = "sleep" THEN d \in SleepSteps /\ d <= wait ELSE d \in IdleSteps
  /\ wait' = (IF phase = "sleep" THEN wait - d ELSE wait)
  /\ idsAge' = (IF idsData = Undef THEN 0 ELSE Min(idsAge + d, staleTime))
  /\ slept' = (IF phase \in {"sleep", "paused"} /\ attempts > 0
               THEN Min(slept + d, retryDelay) ELSE slept)
  /\ trigger' = "none"
  /\ UNCHANGED <<mounted, online, focused, idsStatus, idsFetchStatus, idsData,
                 phase, failureCount, retryCancelled, attempts>>
  /\ UNCHANGED <<addVars, optVars, utVars, formVars, todoVars>>

(***************************************************************************)
(* The retry delay is over (Retryer: sleep(delay).then(() =>               *)
(* canContinue() ? undefined : pause()).then(() => isRetryCancelled ?      *)
(* reject(error) : run())).                                                *)
(***************************************************************************)
SleepDone ==
  /\ phase = "sleep"
  /\ wait = 0
  /\ trigger' = "none"
  /\ SetState(IF CanContinue(focused, online)
              THEN IF retryCancelled THEN Rejected(KeepState)
                                     ELSE Running(KeepState)
              ELSE [KeepState EXCEPT !.phase = "paused",
                                     !.fetchStatus = "paused"])
  /\ UNCHANGED <<mounted, online, focused, idsData, idsAge>>
  /\ UNCHANGED <<addVars, optVars, utVars, formVars, todoVars>>

(***************************************************************************)
(* The Todo component's render (src/unnamed/part_000, lines 8-25): the     *)
(* view it returns for the ids query's state.                              *)
(***************************************************************************)
TodoNoErrorBranch ==
  IF idsStatus = "pending"
  THEN [kind |-> "loading", lines |-> <<"Loading...">>]
  ELSE [kind |-> "list",
        lines |-> IF idsData = Undef THEN <<>>
                  ELSE [i \in 1..Len(Val(idsData)) |->
                          <<"Todo ID: ", Val(idsData)[i]>>]]

Todo ==
  IF idsStatus = "pending"
  THEN [kind |-> "loading", lines |-> <<"Loading...">>]
  ELSE IF idsStatus = "error"
  THEN [kind |-> "error", lines |-> <<"Error occurred...">>]
  ELSE [kind |-> "list",
        lines |-> IF idsData = Undef THEN <<>>
                  ELSE [i \in 1..Len(Val(idsData)) |->
                          <<"Todo ID: ", Val(idsData)[i]>>]]

InitApp ==
  /\ mounted = FALSE
  /\ online = TRUE
  /\ focused = TRUE
  /\ idsStatus = "pending"
  /\ idsFetchStatus = "idle"
  /\ idsData = Undef
  /\ idsAge = 0
  /\ phase = "none"
  /\ failureCount = 0
  /\ wait = 0
  /\ retryCancelled = FALSE
  /\ attempts = 0
  /\ slept = 0
  /\ trigger = "none"

NextApp ==
  \/ Mount
  \/ Unmount
  \/ Blur
  \/ Focus
  \/ GoOffline
  \/ Reconnect
  \/ \E ids \in IdLists : RequestSucceeds(ids)
  \/ RequestFails
  \/ \E d \in SleepSteps \cup IdleSteps : Advance(d)
  \/ SleepDone

(***************************************************************************)
(* The AddTodo component (src/README.md, lines 442-478).                   *)
(***************************************************************************)
Whitespace == {" "}
Chars == Whitespace \cup {"a"}
Titles == UNION {[1..n -> Chars] : n \in 0..MaxLen}

\* String.prototype.trim: the string without its leading and trailing
\* whitespace.
RECURSIVE trimStart(_)
trimStart(t) ==
  IF t = <<>> THEN t
  ELSE IF Head(t) \in Whitespace THEN trimStart(Tail(t)) ELSE t

RECURSIVE trimEnd(_)
trimEnd(t) ==
  IF t = <<>> THEN t
  ELSE IF t[Len(t)] \in Whitespace THEN trimEnd(SubSeq(t, 1, Len(t) - 1)) ELSE t

trim(t) == trimEnd(trimStart(t))

\* handleSubmit's guard `if (!title.trim()) return;`: the empty string is
\* the only falsy string.
RejectedBySubmitNoTrim(t) == t = <<>>

RejectedBySubmit(t) == trim(t) = <<>>

\* onChange: setTitle(e.target.value), for any new value of the input.
setTitle(t) ==
  /\ t # title
  /\ title' = t
  /\ addEvent' = "type"
  /\ UNCHANGED <<addMuts, invalidations>>
  /\ UNCHANGED <<appVars, optVars, utVars, formVars, todoVars>>

\* handleSubmit: return on a blank title, else mutation.mutate(title).
handleSubmit ==
  /\ Len(addMuts) < MaxAdd
  /\ addEvent' = "submit"
  /\ addMuts' = (IF RejectedBySubmit(title) THEN addMuts
                 ELSE Append(addMuts, [status |-> "pending", variables |-> title]))
  /\ UNCHANGED <<title, invalidations>>
  /\ UNCHANGED <<appVars, optVars, utVars, formVars, todoVars>>

\* useMutation's options name one callback, onSuccess: it runs when the
\* mutation succeeded and not when it failed.
onSuccessRunsAlways(outcome) == TRUE

onSuccessRuns(outcome) == outcome = "success"

\* addTodo's promise settles with `outcome`; onSuccess invalidates ['todos']
\* and clears the title.
MutationSettles(m, outcome) ==
  /\ m \in 1..Len(addMuts)
  /\ addMuts[m].status = "pending"
  /\ addMuts' = [addMuts EXCEPT ![m].status = outcome]
  /\ addEvent' = outcome
  /\ IF onSuccessRuns(outcome)
     THEN /\ invalidations' = invalidations + 1
          /\ title' = <<>>
     ELSE UNCHANGED <<title, invalidations>>
  /\ UNCHANGED <<appVars, optVars, utVars, formVars, todoVars>>

InitAddTodo ==
  /\ title = <<>>
  /\ addMuts = <<>>
  /\ invalidations = 0
  /\ addEvent = "none"

NextAddTodo ==
  \/ \E t \in Titles : setTitle(t)
  \/ handleSubmit
  \/ \E m \in 1..MaxAdd : \E outcome \in {"success", "error"} :
       MutationSettles(m, outcome)

(***************************************************************************)
(* The optimistic update (src/README.md, lines 496-517) of mutationFn      *)
(* addTodo (lines 426-429), next to the list query of TodosPage (lines     *)
(* 567-570), which stays mounted.                                          *)
(***************************************************************************)
NewTitles == {"a", "b"}

\* A todo the server held before the page was opened.
SeedTodo == [id |-> 1, title |-> "s", completed |-> TRUE]

\* The server numbers the todos it creates.
NextServerId == Len(server) + 1

\* The first value of Date.now(): above every id the server hands out.
FirstNow == MaxMut + 2

Settled == {"success", "error"}
InFlight == {"sent", "ok", "failed"}

IdleFetch == [phase |-> "idle", resp |-> <<>>]
SentFetch == [phase |-> "sent", resp |-> <<>>]

\* queryClient.cancelQueries(['todos']): a fetch in flight is dropped, the
\* cached data stays.
cancelQueriesNoop(f) == f

cancelQueries(f) == IdleFetch

\* queryClient.setQueryData(['todos'], value) with a value: QueryClient
\* .setQueryData returns without writing when the new data is undefined.
setQueryData(c, value) == IF value = Undef THEN c ELSE value

\* onMutate's updater: old => [...(old || []), newTodo].
updaterPrepends(old, todo) ==
  Def(<<todo>> \o (IF old = Undef THEN <<>> ELSE Val(old)))

updater(old, todo) ==
  Def((IF old = Undef THEN <<>> ELSE Val(old)) \o <<todo>>)

\* onError: queryClient.setQueryData(['todos'], context?.previousTodos).
onError(c, context) == setQueryData(c, context.previousTodos)

\* onSettled runs after a success and after an error.
onSettledRunsOnSuccessOnly(outcome) == outcome = "success"

onSettledRuns(outcome) == TRUE

(***************************************************************************)
(* queryClient.invalidateQueries(['todos']): the query is marked           *)
(* invalidated and, being mounted, refetched with cancelRefetch: a fetch   *)
(* in flight is replaced by a new one when the query has data, and joined  *)
(* when it has none (Query.fetch).  `c` is the cache after onError.        *)
(***************************************************************************)
invalidateQueries(c) ==
  /\ listInvalidated' = TRUE
  /\ listFetch' = (IF listFetch.phase # "idle" /\ c = Undef
                   THEN listFetch ELSE SentFetch)
  /\ fetchBefore' = (IF listFetch.phase # "idle" /\ c = Undef
                     THEN fetchBefore ELSE {})

(***************************************************************************)
(* mutation.mutate(newTitle): onMutate runs to its end before the POST is  *)
(* sent.  Its await of cancelQueries resolves within the same task, so no  *)
(* network event comes between its steps.  Two submissions are more than a *)
(* millisecond apart, so Date.now() returns a new value each time.         *)
(***************************************************************************)
DateNow == now + 1

onMutate(m, newTitle) ==
  /\ muts[m].pc = "idle"
  /\ \A k \in 1..(m - 1) : muts[k].pc # "idle"
  /\ LET f == cancelQueries(listFetch)
         previousTodos == cache
         todo == [id |-> DateNow, title |-> newTitle, completed |-> FALSE]
     IN /\ listFetch' = f
        /\ fetchBefore' = (IF f.phase # "idle" THEN fetchBefore \cup {m} ELSE {})
        /\ cache' = setQueryData(cache, updater(cache, todo))
        /\ listInvalidated' = FALSE
        /\ muts' = [muts EXCEPT ![m] =
                      [pc |-> "sent", title |-> newTitle,
                       previousTodos |-> previousTodos, todo |-> todo,
                       cancelled |-> listFetch.phase # "idle"]]
  /\ now' = DateNow
  /\ UNCHANGED <<server>>
  /\ UNCHANGED <<appVars, addVars, utVars, formVars, todoVars>>

\* addTodo: the server handles POST /todos {title, completed: false}: it
\* stores the todo under an id of its own, or rejects the request.
ServerHandlesPost(m, ok) ==
  /\ muts[m].pc = "sent"
  /\ muts' = [muts EXCEPT ![m].pc = IF ok THEN "ok" ELSE "failed"]
  /\ server' = (IF ok
                THEN Append(server, [id |-> NextServerId,
                                     title |-> muts[m].title,
                                     completed |-> FALSE])
                ELSE server)
  /\ UNCHANGED <<cache, listFetch, listInvalidated, now, fetchBefore>>
  /\ UNCHANGED <<appVars, addVars, utVars, formVars, todoVars>>

\* The response of the POST arrives: the mutation settles; onError on a
\* failure, then onSettled.
MutationEnds(m) ==
  /\ muts[m].pc \in {"ok", "failed"}
  /\ LET outcome == IF muts[m].pc = "ok" THEN "success" ELSE "error"
         c == IF outcome = "error" THEN onError(cache, muts[m]) ELSE cache
     IN /\ muts' = [muts EXCEPT ![m].pc = outcome]
        /\ cache' = c
        /\ IF onSettledRuns(outcome)
           THEN invalidateQueries(c)
           ELSE /\ listInvalidated' =
                     (IF c # cache THEN FALSE ELSE listInvalidated)
                /\ UNCHANGED <<listFetch, fetchBefore>>
  /\ UNCHANGED <<server, now>>
  /\ UNCHANGED <<appVars, addVars, utVars, formVars, todoVars>>

\* An idle list query is refetched (window focus, reconnect, a remount).
RefetchList ==
  /\ listFetch.phase = "idle"
  /\ listFetch' = SentFetch
  /\ fetchBefore' = {}
  /\ UNCHANGED <<server, cache, listInvalidated, muts, now>>
  /\ UNCHANGED <<appVars, addVars, utVars, formVars, todoVars>>

\* fetchTodos: the server handles GET /todos.
ServerHandlesGet ==
  /\ listFetch.phase = "sent"
  /\ listFetch' = [phase |-> "replied", resp |-> server]
  /\ UNCHANGED <<server, cache, listInvalidated, muts, now, fetchBefore>>
  /\ UNCHANGED <<appVars, addVars, utVars, formVars, todoVars>>

\* The response of the GET arrives and is written to the cache.
ListArrives ==
  /\ listFetch.phase = "replied"
  /\ cache' = Def(listFetch.resp)
  /\ listInvalidated' = FALSE
  /\ listFetch' = IdleFetch
  /\ UNCHANGED <<server, muts, now, fetchBefore>>
  /\ UNCHANGED <<appVars, addVars, utVars, formVars, todoVars>>

\* The fetch fails for good: the cache keeps what it has.
ListFails ==
  /\ listFetch.phase # "idle"
  /\ listFetch' = IdleFetch
  /\ fetchBefore' = {}
  /\ UNCHANGED <<server, cache, listInvalidated, muts, now>>
  /\ UNCHANGED <<appVars, addVars, utVars, formVars, todoVars>>

\* TodosPage has just mounted: nothing is cached and the first fetch of
\* ['todos'] is under way.  The mutation may be started from then on: its
\* callbacks provide for an empty cache (old || [], context?.previousTodos).
InitOptimistic ==
  /\ server = <<SeedTodo>>
  /\ cache = Undef
  /\ listFetch = SentFetch
  /\ listInvalidated = FALSE
  /\ muts = [m \in 1..MaxMut |->
               [pc |-> "idle", title |-> "", previousTodos |-> Undef,
                todo |-> [id |-> 0, title |-> "", completed |-> FALSE],
                cancelled |-> FALSE]]
  /\ now = FirstNow
  /\ fetchBefore = {}

NextOptimistic ==
  \/ \E m \in 1..MaxMut : \E newTitle \in NewTitles : onMutate(m, newTitle)
  \/ \E m \in 1..MaxMut : \E ok \in BOOLEAN : ServerHandlesPost(m, ok)
  \/ \E m \in 1..MaxMut : MutationEnds(m)
  \/ RefetchList
  \/ ServerHandlesGet
  \/ ListArrives
  \/ ListFails

(***************************************************************************)
(* useTodos (src/src/App.tsx, lines 177-186) and the useQueries call it    *)
(* makes, for any argument its type admits.                                *)
(***************************************************************************)
\* An element of `ids` is a number or undefined.
IdElems == {Undef} \cup {Def(n) : n \in Ids}

\* `ids` is undefined or an array of at most MaxArgLen elements.
IdsArgs ==
  {Undef} \cup {Def(a) : a \in UNION {[1..n -> IdElems] : n \in 0..MaxArgLen}}

\* `ids ?? []`: the right operand when the left one is undefined (or null).
NullishOrEmpty(ids) == IF ids = Undef THEN <<>> ELSE Val(ids)

\* `id!`: TypeScript's non-null assertion is erased when the code is
\* compiled; at run time the value is passed on as it is.
NonNull(id) == id

\* The object the map callback returns for `id`; queryFn is written as the
\* call it makes when it runs.
QueryOptions(id) ==
  [queryKey |-> <<"todo", id>>,
   queryFn |-> [calls |-> "getTodo", arg |-> NonNull(id)]]

\* Array.prototype.filter(id => id !== undefined).
RECURSIVE Defined(_)
Defined(a) ==
  IF a = <<>> THEN <<>>
  ELSE IF Head(a) = Undef THEN Defined(Tail(a))
       ELSE <<Head(a)>> \o Defined(Tail(a))

\* Array.prototype.map with the callback of lines 179-184.
RECURSIVE MapQueryOptions(_)
MapQueryOptions(a) ==
  IF a = <<>> THEN <<>>
  ELSE <<QueryOptions(Head(a))>> \o MapQueryOptions(Tail(a))

\* useTodos(ids): the `queries` it hands to useQueries.
useTodosSkipsUndefined(ids) == MapQueryOptions(Defined(NullishOrEmpty(ids)))

useTodos(ids) == MapQueryOptions(NullishOrEmpty(ids))

\* The id in a query key ["todo", id].
KeyId(queryKey) == queryKey[2]

NoQuery == [status |-> "none", data |-> Undef]

\* What getTodo(id) resolves with: the response to the request for `id`.
getTodo(id) == [requested |-> id]

\* The ids whose queryFn runs when `queries` is mounted on cache `c`: one
\* query per key, fetched when it has no data and is not being fetched.
Fetched(queries, c) ==
  {queries[i].queryFn.arg : i \in {j \in 1..Len(queries) :
     c[KeyId(queries[j].queryKey)].status = "none"}}

\* useQueries' return value: the i-th result is the state of the query with
\* the i-th key.
useQueries(queries, c) ==
  [i \in 1..Len(queries) |-> c[KeyId(queries[i].queryKey)]]

(***************************************************************************)
(* A component calls useTodos(ids) and mounts: useQueries builds one       *)
(* observer per element of `queries`; a query that is new to the cache     *)
(* starts its fetch, which calls its queryFn.                              *)
(***************************************************************************)
CallUseTodos(ids) ==
  /\ utQueries = Undef
  /\ utIds' = ids
  /\ LET queries == useTodos(ids)
         started == Fetched(queries, utCache)
     IN /\ utQueries' = Def(queries)
        /\ utCache' = [k \in IdElems |->
                         IF k \in started
                         THEN [status |-> "pending", data |-> Undef]
                         ELSE utCache[k]]
        /\ utCalls' = utCalls \cup started
  /\ UNCHANGED <<appVars, addVars, optVars, formVars, todoVars>>

\* getTodo(id) resolves: the query of key ["todo", id] has data.
GetTodoResolves(id) ==
  /\ utCache[id].status = "pending"
  /\ utCache' = [utCache EXCEPT ![id] =
                   [status |-> "success", data |-> Def(getTodo(id))]]
  /\ UNCHANGED <<utIds, utQueries, utCalls>>
  /\ UNCHANGED <<appVars, addVars, optVars, formVars, todoVars>>

\* getTodo(id) has failed for good.
GetTodoRejects(id) ==
  /\ utCache[id].status = "pending"
  /\ utCache' = [utCache EXCEPT ![id].status = "error"]
  /\ UNCHANGED <<utIds, utQueries, utCalls>>
  /\ UNCHANGED <<appVars, addVars, optVars, formVars, todoVars>>

InitUseTodos ==
  /\ utIds = Undef
  /\ utQueries = Undef
  /\ utCache = [k \in IdElems |-> NoQuery]
  /\ utCalls = {}

NextUseTodos ==
  \/ \E ids \in IdsArgs : CallUseTodos(ids)
  \/ \E id \in IdElems : GetTodoResolves(id)
  \/ \E id \in IdElems : GetTodoRejects(id)

(***************************************************************************)
(* RegisterForm (src/src/App.tsx, lines 47-165), a react-hook-form form    *)
(* with the default modes: validation on submit, re-validation on change   *)
(* once the form has been submitted.  What handleSubmit, register and      *)
(* reset do is the library's behaviour (createFormControl: handleSubmit,   *)
(* onChange, _reset; validateField).                                       *)
(***************************************************************************)
nameMinLength == 3
passwordMinLength == 6
ageMin == 18

Rep(c, n) == [i \in 1..n |-> c]

\* Values the user may give the inputs: on both sides of every rule.
Names ==
  {Rep("a", n) : n \in {0, nameMinLength - 1, nameMinLength}}
    \cup {Rep(" ", nameMinLength)}

Emails ==
  {<<>>, <<"a">>, <<"a", "@", "a">>, <<"a", "@", "a", ".">>,
   <<"a", "@", ".", "a">>, <<"@", "a", ".", "a">>, <<"a", ".", "a", "@", "a">>,
   <<"a", "@", "a", ".", "a">>, <<"a", "@", "a", "@", "a", ".", "a">>,
   <<"a", ".", "a", "@", "a", ".", "a", ".", "a">>}

Passwords == {Rep("p", n) : n \in {0, passwordMinLength - 1, passwordMinLength}}

\* A number input holds nothing or a number.
Ages == {Undef} \cup {Def(n) : n \in {0, ageMin - 1, ageMin, ageMin + 1}}

Fields == {"name", "email", "password", "age"}

FieldValues(field) ==
  CASE field = "name" -> Names
    [] field = "email" -> Emails
    [] field = "password" -> Passwords
    [] field = "age" -> Ages

(***************************************************************************)
(* The pattern /^[^@]+@[^@]+\.[^@]+$/ as a sequence of items, and a        *)
(* backtracking match of a whole string against such a sequence.           *)
(***************************************************************************)
NotAtPlus == [kind |-> "plus", excluded |-> "@"]
Literal(c) == [kind |-> "literal", char |-> c]

emailPatternNoDot == <<NotAtPlus, Literal("@"), NotAtPlus>>

emailPattern == <<NotAtPlus, Literal("@"), NotAtPlus, Literal("."), NotAtPlus>>

RECURSIVE Matches(_, _)
Matches(s, pattern) ==
  IF pattern = <<>> THEN s = <<>>
  ELSE IF Head(pattern).kind = "literal"
  THEN /\ s # <<>>
       /\ Head(s) = Head(pattern).char
       /\ Matches(Tail(s), Tail(pattern))
  ELSE \E k \in 1..Len(s) :
         /\ \A i \in 1..k : s[i] # Head(pattern).excluded
         /\ Matches(SubSeq(s, k + 1, Len(s)), Tail(pattern))

NoError == ""

\* validateField: `required` fails on an empty input; the other rules are
\* looked at only when the input is not empty; the first failure is the
\* field's error.
validate(field, v) ==
  CASE field = "name" ->
         IF v = <<>> THEN "Name is required"
         ELSE IF Len(v) < nameMinLength
         THEN "Name must be at least 3 characters" ELSE NoError
    [] field = "email" ->
         IF v = <<>> THEN "Email is required"
         ELSE IF ~Matches(v, emailPattern)
         THEN "Enter a valid email" ELSE NoError
    [] field = "password" ->
         IF v = <<>> THEN "Password is required"
         ELSE IF Len(v) < passwordMinLength
         THEN "Password must be 6+ characters" ELSE NoError
    [] field = "age" ->
         IF v = Undef THEN "Age is required"
         ELSE IF Val(v) < ageMin THEN "Must be 18 or older" ELSE NoError

NoErrors == [field \in Fields |-> NoError]

\* executeBuiltInValidation: every registered field is validated.
ValidateAll(vals) == [field \in Fields |-> validate(field, vals[field])]

\* reset() without arguments: the inputs go back to their initial, empty
\* values.
resetKeepsValues(vals) == vals

reset(vals) ==
  [name |-> <<>>, email |-> <<>>, password |-> <<>>, age |-> Undef]

\* The submit button as rendered (lines 147-157).
SubmitButtonNeverDisabled ==
  [disabled |-> FALSE,
   label |-> IF isSubmitting THEN "Submitting..." ELSE "Register"]

SubmitButton ==
  [disabled |-> isSubmitting,
   label |-> IF isSubmitting THEN "Submitting..." ELSE "Register"]

\* The window's alert is open: it blocks the page until it is dismissed.
AlertOpen == \E k \in 1..Len(subs) : subs[k] = "alert"

\* An input's onChange (register): the value is stored; the field is
\* validated again when the form has been submitted before.
Change(field, v) ==
  /\ ~AlertOpen
  /\ v # values[field]
  /\ values' = [values EXCEPT ![field] = v]
  /\ errors' = (IF isSubmitted
                THEN [errors EXCEPT ![field] = validate(field, v)]
                ELSE errors)
  /\ formEvent' = "change"
  /\ UNCHANGED <<isSubmitting, isSubmitted, subs, resets>>
  /\ UNCHANGED <<appVars, addVars, optVars, utVars, todoVars>>

(***************************************************************************)
(* A submit event of the form (line 75): the user presses the button, or   *)
(* Enter in an input, neither of which submits while the button is         *)
(* disabled.  handleSubmit sets isSubmitting and validates every field;    *)
(* the validation awaits nothing but resolved promises, so no other event  *)
(* comes in between.  Without errors it calls onSubmit, which logs the     *)
(* data and starts the 1500 ms timer; with errors it stores them and sets  *)
(* isSubmitted and isSubmitting: false.                                    *)
(***************************************************************************)
FormSubmit ==
  /\ ~AlertOpen
  /\ ~SubmitButton.disabled
  /\ Len(subs) < MaxSubmit
  /\ formEvent' = "submit"
  /\ IF ValidateAll(values) = NoErrors
     THEN /\ subs' = Append(subs, "waiting")
          /\ isSubmitting' = TRUE
          /\ errors' = NoErrors
          /\ UNCHANGED isSubmitted
     ELSE /\ errors' = ValidateAll(values)
          /\ isSubmitting' = FALSE
          /\ isSubmitted' = TRUE
          /\ UNCHANGED subs
  /\ UNCHANGED <<values, resets>>
  /\ UNCHANGED <<appVars, addVars, optVars, utVars, todoVars>>

\* The timer of invocation k fires (line 62): onSubmit goes on to alert().
TimerFires(k) ==
  /\ k \in 1..Len(subs)
  /\ subs[k] = "waiting"
  /\ ~AlertOpen
  /\ subs' = [subs EXCEPT ![k] = "alert"]
  /\ formEvent' = "timer"
  /\ UNCHANGED <<values, errors, isSubmitting, isSubmitted, resets>>
  /\ UNCHANGED <<appVars, addVars, optVars, utVars, todoVars>>

(***************************************************************************)
(* The user dismisses the alert of invocation k: alert() returns, reset()  *)
(* runs (values, errors and isSubmitting go back to their initial state)   *)
(* and onSubmit returns; handleSubmit then sets isSubmitted and            *)
(* isSubmitting: false.                                                    *)
(***************************************************************************)
AlertDismissed(k) ==
  /\ k \in 1..Len(subs)
  /\ subs[k] = "alert"
  /\ subs' = [subs EXCEPT ![k] = "done"]
  /\ values' = reset(values)
  /\ resets' = resets + 1
  /\ errors' = NoErrors
  /\ isSubmitting' = FALSE
  /\ isSubmitted' = TRUE
  /\ formEvent' = "dismiss"
  /\ UNCHANGED <<appVars, addVars, optVars, utVars, todoVars>>

InitRegisterForm ==
  /\ values = [name |-> <<>>, email |-> <<>>, password |-> <<>>, age |-> Undef]
  /\ errors = NoErrors
  /\ isSubmitting = FALSE
  /\ isSubmitted = FALSE
  /\ subs = <<>>
  /\ resets = 0
  /\ formEvent = "none"

NextRegisterForm ==
  \/ \E field \in Fields : \E v \in FieldValues(field) : Change(field, v)
  \/ FormSubmit
  \/ \E k \in 1..MaxSubmit : TimerFires(k)
  \/ \E k \in 1..MaxSubmit : AlertDismissed(k)

(***************************************************************************)
(* The Todo component (src/unnamed/part_000) with both hooks: useTodoIds   *)
(* and useTodos(todosIdsQuery.data), under the defaults of                 *)
(* src/src/main.tsx.  Every query is modelled alike and more coarsely      *)
(* than the ids query is under Spec: of a fetch its start, its pauses and  *)
(* its end are steps, the retries in between are not; of the data's age    *)
(* only whether it has reached staleTime.  The status of a query is kept   *)
(* for the ids query, the only one whose status the component reads.       *)
(***************************************************************************)
NewQuery == [fetchStatus |-> "idle", data |-> Undef, stale |-> FALSE]

NewIdsQuery ==
  [fetchStatus |-> "idle", data |-> Undef, stale |-> FALSE,
   status |-> "pending"]

\* Query.isStaleByTime.
QIsStale(q) == q.data = Undef \/ q.stale

\* QueryObserver shouldFetchOn and shouldFetchOnMount, for query state q.
QShouldFetchOn(flag, q) == flag /\ QIsStale(q)

QShouldFetchOnMount(q) ==
  q.data = Undef \/ QShouldFetchOn(refetchOnMount, q)

\* Query.fetch: a fetch under way is joined; a new one is paused when
\* offline.
QFetch(q, o) ==
  IF q.fetchStatus # "idle" THEN q
  ELSE [q EXCEPT !.fetchStatus = IF o THEN "fetching" ELSE "paused"]

\* retryer.continue() after a focus or reconnect event.
QContinued(q, foc, o) ==
  IF q.fetchStatus = "paused" /\ CanContinue(foc, o)
  THEN [q EXCEPT !.fetchStatus = "fetching"] ELSE q

\* An observer subscribes to the query (QueryObserver.onSubscribe).
QSubscribed(q, o) == IF QShouldFetchOnMount(q) THEN QFetch(q, o) ELSE q

\* A focus or reconnect event under refetch flag `flag` for a query that
\* has an observer (observed) or has none.
QRefetched(q, observed, flag, foc, o) ==
  QContinued(IF observed /\ QShouldFetchOn(flag, q) THEN QFetch(q, o) ELSE q,
             foc, o)

QResolved(q, data) ==
  [q EXCEPT !.fetchStatus = "idle", !.data = Def(data), !.stale = FALSE]

QRejected(q) == [q EXCEPT !.fetchStatus = "idle"]

\* The status of the ids query once its state went from q to r: a fetch
\* that starts without data puts it (back) to pending.
Status(q, r) ==
  [r EXCEPT !.status = IF q.fetchStatus = "idle" /\ r.fetchStatus # "idle"
                          /\ q.data = Undef
                       THEN "pending" ELSE q.status]

\* The argument of useTodos (part_000, line 6): the ids query's data, a list
\* of numbers when it is defined.
TodoIdsArgAllIds(data) == Def([i \in 1..MaxId |-> Def(i)])

TodoIdsArg(data) ==
  IF data = Undef THEN Undef
  ELSE Def([i \in 1..Len(Val(data)) |-> Def(Val(data)[i])])

\* The `queries` of the component's useQueries call.
TodoQueries(data) == useTodos(TodoIdsArg(data))

\* The ids whose query ["todo", id] has an observer: those of the queries of
\* a mounted component.
Observed(m, data) ==
  IF m THEN {Val(KeyId(TodoQueries(data)[i].queryKey)) :
               i \in 1..Len(TodoQueries(data))}
  ELSE {}

\* The component mounts: the observers of the ids query and of the queries
\* of useTodos(todosIdsQuery.data) subscribe.
TodoMounts ==
  /\ ~page.mounted
  /\ page' = [page EXCEPT !.mounted = TRUE]
  /\ idsQuery' = Status(idsQuery, QSubscribed(idsQuery, page.online))
  /\ todoQuery' = [id \in Ids |->
                     IF id \in Observed(TRUE, idsQuery.data)
                     THEN QSubscribed(todoQuery[id], page.online)
                     ELSE todoQuery[id]]
  /\ UNCHANGED <<appVars, addVars, optVars, utVars, formVars>>

\* The component unmounts: the queries lose their observers; what is being
\* fetched goes on.
TodoUnmounts ==
  /\ page.mounted
  /\ page' = [page EXCEPT !.mounted = FALSE]
  /\ UNCHANGED <<idsQuery, todoQuery>>
  /\ UNCHANGED <<appVars, addVars, optVars, utVars, formVars>>

WindowBlurs ==
  /\ page.focused
  /\ page' = [page EXCEPT !.focused = FALSE]
  /\ UNCHANGED <<idsQuery, todoQuery>>
  /\ UNCHANGED <<appVars, addVars, optVars, utVars, formVars>>

\* The window gains focus (Query.onFocus of every query).
WindowFocuses ==
  /\ ~page.focused
  /\ page' = [page EXCEPT !.focused = TRUE]
  /\ idsQuery' = Status(idsQuery,
                        QRefetched(idsQuery, page.mounted,
                                   refetchOnWindowFocus, TRUE, page.online))
  /\ todoQuery' = [id \in Ids |->
                     QRefetched(todoQuery[id],
                                id \in Observed(page.mounted, idsQuery.data),
                                refetchOnWindowFocus, TRUE, page.online)]
  /\ UNCHANGED <<appVars, addVars, optVars, utVars, formVars>>

NetworkDrops ==
  /\ page.online
  /\ page' = [page EXCEPT !.online = FALSE]
  /\ UNCHANGED <<idsQuery, todoQuery>>
  /\ UNCHANGED <<appVars, addVars, optVars, utVars, formVars>>

\* The network comes back (Query.onOnline of every query).
NetworkReturns ==
  /\ ~page.online
  /\ page' = [page EXCEPT !.online = TRUE]
  /\ idsQuery' = Status(idsQuery,
                        QRefetched(idsQuery, page.mounted,
                                   refetchOnReconnect, page.focused, TRUE))
  /\ todoQuery' = [id \in Ids |->
                     QRefetched(todoQuery[id],
                                id \in Observed(page.mounted, idsQuery.data),
                                refetchOnReconnect, page.focused, TRUE)]
  /\ UNCHANGED <<appVars, addVars, optVars, utVars, formVars>>

(***************************************************************************)
(* getTodosIds resolves with `ids`.  A mounted component renders again     *)
(* with the new data: useQueries subscribes an observer for every id that  *)
(* is new in the list and drops the observers of the ids that left it.     *)
(***************************************************************************)
IdsResolve(ids) ==
  /\ idsQuery.fetchStatus = "fetching"
  /\ idsQuery' = [QResolved(idsQuery, ids) EXCEPT !.status = "success"]
  /\ todoQuery' = [id \in Ids |->
                     IF id \in Observed(page.mounted, Def(ids))
                               \ Observed(page.mounted, idsQuery.data)
                     THEN QSubscribed(todoQuery[id], page.online)
                     ELSE todoQuery[id]]
  /\ UNCHANGED page
  /\ UNCHANGED <<appVars, addVars, optVars, utVars, formVars>>

\* getTodosIds has failed for good (after its retries, or with its retries
\* cancelled): the fetch ends in error and the data stays.
IdsReject ==
  /\ idsQuery.fetchStatus = "fetching"
  /\ idsQuery' = [QRejected(idsQuery) EXCEPT !.status = "error"]
  /\ UNCHANGED <<page, todoQuery>>
  /\ UNCHANGED <<appVars, addVars, optVars, utVars, formVars>>

\* A retry delay of the ids fetch ends while the retryer cannot continue.
IdsPause ==
  /\ idsQuery.fetchStatus = "fetching"
  /\ ~CanContinue(page.focused, page.online)
  /\ idsQuery' = [idsQuery EXCEPT !.fetchStatus = "paused"]
  /\ UNCHANGED <<page, todoQuery>>
  /\ UNCHANGED <<appVars, addVars, optVars, utVars, formVars>>

\* staleTime has passed since the ids were fetched.
IdsGoStale ==
  /\ idsQuery.data # Undef
  /\ ~idsQuery.stale
  /\ idsQuery' = [idsQuery EXCEPT !.stale = TRUE]
  /\ UNCHANGED <<page, todoQuery>>
  /\ UNCHANGED <<appVars, addVars, optVars, utVars, formVars>>

\* getTodo(id) resolves.
TodoResolves(id) ==
  /\ todoQuery[id].fetchStatus = "fetching"
  /\ todoQuery' = [todoQuery EXCEPT
                     ![id] = QResolved(todoQuery[id], getTodo(Def(id)))]
  /\ UNCHANGED <<page, idsQuery>>
  /\ UNCHANGED <<appVars, addVars, optVars, utVars, formVars>>

\* getTodo(id) has failed for good.
TodoRejects(id) ==
  /\ todoQuery[id].fetchStatus = "fetching"
  /\ todoQuery' = [todoQuery EXCEPT ![id] = QRejected(todoQuery[id])]
  /\ UNCHANGED <<page, idsQuery>>
  /\ UNCHANGED <<appVars, addVars, optVars, utVars, formVars>>

\* A retry delay of the fetch of ["todo", id] ends while the retryer cannot
\* continue.
TodoPauses(id) ==
  /\ todoQuery[id].fetchStatus = "fetching"
  /\ ~CanContinue(page.focused, page.online)
  /\ todoQuery' = [todoQuery EXCEPT ![id].fetchStatus = "paused"]
  /\ UNCHANGED <<page, idsQuery>>
  /\ UNCHANGED <<appVars, addVars, optVars, utVars, formVars>>

\* staleTime has passed since the todo was fetched.
TodoGoesStale(id) ==
  /\ todoQuery[id].data # Undef
  /\ ~todoQuery[id].stale
  /\ todoQuery' = [todoQuery EXCEPT ![id].stale = TRUE]
  /\ UNCHANGED <<page, idsQuery>>
  /\ UNCHANGED <<appVars, addVars, optVars, utVars, formVars>>

\* The ids query has had no observer for gcTime (left at its default) and is
\* idle: it is removed from the cache (Query.optionalRemove).
IdsCollected ==
  /\ ~page.mounted
  /\ idsQuery.fetchStatus = "idle"
  /\ idsQuery # NewIdsQuery
  /\ idsQuery' = NewIdsQuery
  /\ UNCHANGED <<page, todoQuery>>
  /\ UNCHANGED <<appVars, addVars, optVars, utVars, formVars>>

\* The same for a query ["todo", id].
TodoCollected(id) ==
  /\ id \notin Observed(page.mounted, idsQuery.data)
  /\ todoQuery[id].fetchStatus = "idle"
  /\ todoQuery[id] # NewQuery
  /\ todoQuery' = [todoQuery EXCEPT ![id] = NewQuery]
  /\ UNCHANGED <<page, idsQuery>>
  /\ UNCHANGED <<appVars, addVars, optVars, utVars, formVars>>

\* The component returns the list view (part_000, lines 8-17): the ids
\* query is neither pending nor in error.
ListViewShown ==
  page.mounted /\ idsQuery.status \notin {"pending", "error"}

\* todoQueries (line 6): the results of useQueries, in the queries' order.
todoQueries ==
  useQueries(TodoQueries(idsQuery.data),
             [k \in IdElems |-> IF k = Undef THEN NewQuery
                                ELSE todoQuery[Val(k)]])

\* The id of the todo that getTodo resolved with: the id it was asked for.
TodoId(todo) == todo.requested

\* The keys of the <li> elements (lines 28-29): key={data?.id}.
ItemKeys ==
  [i \in 1..Len(todoQueries) |->
     IF todoQueries[i].data = Undef THEN Undef
     ELSE TodoId(Val(todoQueries[i].data))]

InitTodo ==
  /\ page = [mounted |-> FALSE, online |-> TRUE, focused |-> TRUE]
  /\ idsQuery = NewIdsQuery
  /\ todoQuery = [id \in Ids |-> NewQuery]

NextTodo ==
  \/ TodoMounts
  \/ TodoUnmounts
  \/ WindowBlurs
  \/ WindowFocuses
  \/ NetworkDrops
  \/ NetworkReturns
  \/ \E ids \in IdLists : IdsResolve(ids)
  \/ IdsReject
  \/ IdsPause
  \/ IdsGoStale
  \/ \E id \in Ids : TodoResolves(id)
  \/ \E id \in Ids : TodoRejects(id)
  \/ \E id \in Ids : TodoPauses(id)
  \/ \E id \in Ids : TodoGoesStale(id)
  \/ IdsCollected
  \/ \E id \in Ids : TodoCollected(id)

(***************************************************************************)
(* The specifications.                                                     *)
(***************************************************************************)
Init == InitApp /\ InitAddTodo /\ InitOptimistic /\ InitUseTodos
        /\ InitRegisterForm
        /\ InitTodo

Next == NextApp

Spec == Init /\ [][Next]_vars

SpecAddTodo == Init /\ [][NextAddTodo]_vars

SpecOptimistic == Init /\ [][NextOptimistic]_vars

SpecUseTodos == Init /\ [][NextUseTodos]_vars

SpecTodo == Init /\ [][NextTodo]_vars

\* A timer that is due fires, and the user dismisses an alert that is open.
SpecRegisterForm ==
  /\ Init
  /\ [][NextRegisterForm]_vars
  /\ \A k \in 1..MaxSubmit :
       WF_vars(TimerFires(k)) /\ WF_vars(AlertDismissed(k))

(***************************************************************************)
(* Claims about the Todo component and the query defaults (Spec).          *)
(***************************************************************************)

\* A step that ends the current fetch in the error state.
FetchEndsInError == phase # "none" /\ phase' = "none" /\ idsStatus' = "error"

\* A step that runs a retry: queryFn is called again within the same fetch.
RetryRuns == attempts >= 1 /\ attempts' = attempts + 1

FetchStarts == idsFetchStatus = "idle" /\ idsFetchStatus' # "idle"

\* C8: data is fresh until it is 5 minutes old and stale from then on (on
\* focus and reconnect, cached data of an idle mounted query is refetched
\* exactly when it is 300000 ms old or older), and a mount that finds data
\* in the cache starts no fetch, fresh or stale.
C8_FreshThenStaleNoRefetchOnMount ==
  [][/\ (trigger' = "mount" /\ idsData # Undef) =>
          /\ idsFetchStatus' = idsFetchStatus
          /\ phase' = phase
          /\ attempts' = attempts
     /\ (trigger' \in {"focus", "reconnect"} /\ mounted /\ idsData # Undef
         /\ idsFetchStatus = "idle") =>
          (FetchStarts <=> idsAge >= 300000)
    ]_vars

\* C8's case: the component has just mounted again on stale cached data and
\* nothing is being fetched.
C8_Witness ==
  trigger = "mount" /\ mounted /\ idsData # Undef /\ idsAge >= staleTime
  /\ idsFetchStatus = "idle" /\ phase = "none"

C10_ThreeViews ==
  mounted =>
    /\ idsStatus = "pending" =>
         Todo.kind = "loading" /\ Todo.lines = <<"Loading...">>
    /\ idsStatus = "error" =>
         Todo.kind = "error" /\ Todo.lines = <<"Error occurred...">>
    /\ idsStatus = "success" =>
         /\ idsData # Undef
         /\ Todo.kind = "list"
         /\ Len(Todo.lines) = Len(Val(idsData))
         /\ \A i \in 1..Len(Val(idsData)) :
              Todo.lines[i] = <<"Todo ID: ", Val(idsData)[i]>>
    /\ Todo.kind = "list" => idsStatus \notin {"pending", "error"}

\* C10's case: a refetch failed, so ids are cached and the query is in
\* error, and the component shows the error view, not the ids.
C10_Witness ==
  mounted /\ idsStatus = "error" /\ idsData # Undef /\ Len(Val(idsData)) = 2
  /\ Todo.kind = "error"

(***************************************************************************)
(* Claims about the AddTodo component (SpecAddTodo).                       *)
(***************************************************************************)

\* The title is empty or consists only of whitespace.
Blank(t) == \A i \in 1..Len(t) : t[i] \in Whitespace

\* C5: handleSubmit starts a mutation exactly when the title has a character
\* that is not whitespace (its trimmed form is not empty), and the mutation
\* gets the title as typed, untrimmed; so no mutation ever has a blank title.
C5_SubmitGuard ==
  /\ [][addEvent' = "submit" =>
          IF Blank(title)
          THEN addMuts' = addMuts
          ELSE /\ Len(addMuts') = Len(addMuts) + 1
               /\ SubSeq(addMuts', 1, Len(addMuts)) = addMuts
               /\ addMuts'[Len(addMuts')].variables = title
               /\ addMuts'[Len(addMuts')].status = "pending"
       ]_vars
  /\ [](\A m \in 1..Len(addMuts) : ~Blank(addMuts[m].variables))

\* C5's case: a title with a leading space was submitted and the mutation
\* received it with the space.
C5_Witness ==
  /\ addEvent = "submit"
  /\ Len(addMuts) = 1
  /\ addMuts[1].variables = <<" ", "a">>
  /\ title = <<" ", "a">>

\* C6: a successful mutation clears the title and issues one invalidation;
\* a failed one leaves the typed title and issues none; nothing else the
\* component does clears the title or invalidates.
C6_OnlyOnSuccess ==
  [][/\ addEvent' = "success" =>
          title' = <<>> /\ invalidations' = invalidations + 1
     /\ addEvent' = "error" =>
          title' = title /\ invalidations' = invalidations
     /\ invalidations' # invalidations => addEvent' = "success"
     /\ title' # title => addEvent' \in {"success", "type"}
    ]_vars

\* C6's case: a mutation has just failed, the typed title is still in the
\* input and nothing was invalidated.
C6_Witness ==
  /\ addEvent = "error"
  /\ title # <<>>
  /\ invalidations = 0
  /\ \E m \in 1..Len(addMuts) : addMuts[m].status = "error"

(***************************************************************************)
(* Claims about the optimistic update (SpecOptimistic).                    *)
(***************************************************************************)

Mutations == 1..MaxMut

\* Todo t is an element of the cached list c.
InCache(t, c) == c # Undef /\ \E i \in 1..Len(Val(c)) : Val(c)[i] = t

\* A step in which mutation m runs onMutate, or settles with an error, or
\* settles either way.
OnMutateStep(m) == muts[m].pc = "idle" /\ muts'[m].pc = "sent"
OnErrorStep(m) == muts[m].pc = "failed" /\ muts'[m].pc = "error"
SettleStep(m) == muts[m].pc \in {"ok", "failed"} /\ muts'[m].pc \in Settled

\* C1, as the claim states it: when the request has failed, onError leaves
\* the cache of ['todos'] equal to what the mutation's onMutate read as
\* previousTodos, and the mutation's optimistic todo is not in the cache.
C1_AsClaimed ==
  [][\A m \in Mutations :
       OnErrorStep(m) =>
         /\ cache' = muts[m].previousTodos
         /\ ~InCache(muts[m].todo, cache')
    ]_vars

\* C2: onMutate leaves the cache equal to the list cached before (the empty
\* list when nothing was cached) followed by one todo with the new title and
\* completed false, and it does so before the server has handled the
\* request.
C2_OptimisticAppend ==
  [][\A m \in Mutations :
       OnMutateStep(m) =>
         LET old == IF cache = Undef THEN <<>> ELSE Val(cache)
         IN /\ cache' # Undef
            /\ Len(Val(cache')) = Len(old) + 1
            /\ SubSeq(Val(cache'), 1, Len(old)) = old
            /\ Val(cache')[Len(old) + 1].title = muts'[m].title
            /\ Val(cache')[Len(old) + 1].completed = FALSE
            /\ server' = server
    ]_vars

\* C2's case: a mutation has run onMutate on a cache that held todos, and
\* the cache is that list with the mutation's todo at its end.
C2_Witness ==
  \E m \in Mutations :
    /\ muts[m].pc = "sent"
    /\ muts[m].previousTodos # Undef
    /\ Len(Val(muts[m].previousTodos)) >= 1
    /\ cache = Def(Append(Val(muts[m].previousTodos), muts[m].todo))

\* No mutation is in flight, one has settled, and the refetch of ['todos']
\* has completed: the query is idle and its data is not invalidated.
Quiescent ==
  /\ \A m \in Mutations : muts[m].pc \notin InFlight
  /\ \E m \in Mutations : muts[m].pc \in Settled
  /\ listFetch.phase = "idle"
  /\ ~listInvalidated

\* C3: when a mutation settles, with success or with an error, ['todos'] is
\* invalidated and a refetch is sent; and once no mutation is in flight and
\* the refetch has completed (it delivered data), the cached list is the
\* server's list.
C3_SettledThenSynced ==
  /\ [][\A m \in Mutations :
          SettleStep(m) => listInvalidated' /\ listFetch'.phase = "sent"]_vars
  /\ [](Quiescent => cache = Def(server))

\* C3's case: one mutation succeeded, another failed, the last refetch has
\* completed and the cache holds the server's list.
C3_Witness ==
  /\ Quiescent
  /\ \E m \in Mutations : muts[m].pc = "success"
  /\ \E m \in Mutations : muts[m].pc = "error"
  /\ cache = Def(server)

\* A step in which the response of the list fetch overwrites the cache.
ResponseOverwrites ==
  /\ listFetch.phase = "replied"
  /\ listFetch'.phase = "idle"
  /\ muts' = muts
  /\ cache' # cache

\* C4: onMutate leaves no fetch of ['todos'] in flight, so a response that
\* overwrites the cache never belongs to a fetch that was already in flight
\* when a mutation still in flight ran its onMutate.
C4_NoOverwriteByEarlierFetch ==
  [][/\ \A m \in Mutations :
          OnMutateStep(m) => listFetch'.phase = "idle"
     /\ ResponseOverwrites =>
          \A m \in fetchBefore : muts[m].pc \notin InFlight
    ]_vars

\* C4's case: a mutation in flight whose onMutate cancelled a fetch that was
\* in flight; no fetch is in flight and its optimistic todo is cached.
C4_Witness ==
  \E m \in Mutations :
    /\ muts[m].pc \in InFlight
    /\ muts[m].cancelled
    /\ listFetch.phase = "idle"
    /\ InCache(muts[m].todo, cache)
(***************************************************************************)
(* Claims about useTodos (SpecUseTodos).                                   *)
(***************************************************************************)

\* C11: useTodos(ids) hands useQueries one query per element of ids, in the
\* order of ids, the i-th with key ["todo", ids[i]] and a queryFn that calls
\* getTodo(ids[i]); no query when ids is undefined; and the i-th result is
\* the state of the i-th query: its data, once there, is the response to the
\* request for ids[i].
C11_OneQueryPerId ==
  utQueries # Undef =>
    LET queries == Val(utQueries)
        results == useQueries(queries, utCache)
        n == IF utIds = Undef THEN 0 ELSE Len(Val(utIds))
    IN /\ Len(queries) = n
       /\ Len(results) = n
       /\ \A i \in 1..n :
            /\ queries[i].queryKey = <<"todo", Val(utIds)[i]>>
            /\ queries[i].queryFn = [calls |-> "getTodo", arg |-> Val(utIds)[i]]
            /\ results[i].status # "none"
            /\ results[i].data # Undef =>
                 Val(results[i].data).requested = Val(utIds)[i]

\* C11's case: useTodos was called with [2, 1]; the first result holds the
\* response for 2 and the second that for 1.
C11_Witness ==
  /\ utIds = Def(<<Def(2), Def(1)>>)
  /\ utQueries # Undef
  /\ useQueries(Val(utQueries), utCache)[1].data = Def([requested |-> Def(2)])
  /\ useQueries(Val(utQueries), utCache)[2].data = Def([requested |-> Def(1)])

\* C16, as the claim states it: every argument getTodo is called with is a
\* defined number.
C16_AsClaimed == \A id \in utCalls : id # Undef

(***************************************************************************)
(* Claims about RegisterForm (SpecRegisterForm).                           *)
(***************************************************************************)

\* The string has exactly one "@", something before it, and after it a "."
\* with something on both sides.
EmailShape(s) ==
  \E i, j \in 1..Len(s) :
    /\ s[i] = "@"
    /\ \A k \in 1..Len(s) : s[k] = "@" => k = i
    /\ 1 < i
    /\ i + 1 < j
    /\ j < Len(s)
    /\ s[j] = "."

FieldPasses(field) ==
  CASE field = "name" -> values.name # <<>> /\ Len(values.name) >= 3
    [] field = "email" -> values.email # <<>> /\ EmailShape(values.email)
    [] field = "password" -> values.password # <<>> /\ Len(values.password) >= 6
    [] field = "age" -> values.age # Undef /\ Val(values.age) >= 18

\* A step that invokes onSubmit.
OnSubmitStarts == Len(subs') = Len(subs) + 1

\* C12: at a submit event onSubmit is invoked exactly when name has at least
\* 3 characters, email has the shape x@y.z without a second "@", password
\* has at least 6 characters and age is given and at least 18; otherwise
\* onSubmit is not invoked, the form is not reset and every failing field
\* shows an error message.
C12_SubmitOnlyWhenValid ==
  [][formEvent' = "submit" =>
       IF \A field \in Fields : FieldPasses(field)
       THEN OnSubmitStarts
       ELSE /\ subs' = subs
            /\ values' = values
            /\ resets' = resets
            /\ \A field \in Fields :
                 ~FieldPasses(field) => errors'[field] # NoError
    ]_vars

\* C12's case: a form whose email has two "@" and whose other fields pass
\* was submitted; onSubmit was not invoked and the email's message shows.
C12_Witness ==
  /\ formEvent = "submit"
  /\ values.email = <<"a", "@", "a", "@", "a", ".", "a">>
  /\ \A field \in Fields \ {"email"} : FieldPasses(field)
  /\ errors.email = "Enter a valid email"
  /\ subs = <<>>

\* An invocation of onSubmit is at its simulated call or at its alert.
Busy(k) == subs[k] \in {"waiting", "alert"}

\* C13: from the start of onSubmit until its alert is dismissed isSubmitting
\* is true and the button is disabled and reads 'Submitting...'; the form is
\* reset only in the step that dismisses the alert, to empty values, and
\* that step leaves isSubmitting false and the button enabled and reading
\* 'Register'; and isSubmitting, once true, becomes false again.
C13_SubmittingLifecycle ==
  /\ [](\A k \in 1..Len(subs) :
          Busy(k) => /\ isSubmitting
                     /\ SubmitButton = [disabled |-> TRUE,
                                        label |-> "Submitting..."])
  /\ [][/\ OnSubmitStarts => isSubmitting'
        /\ formEvent' = "timer" => values' = values /\ resets' = resets
        /\ resets' # resets => formEvent' = "dismiss"
        /\ formEvent' = "dismiss" =>
             /\ \E k \in 1..Len(subs) : subs[k] = "alert" /\ subs'[k] = "done"
             /\ resets' = resets + 1
             /\ values' = [name |-> <<>>, email |-> <<>>, password |-> <<>>,
                           age |-> Undef]
             /\ ~isSubmitting'
             /\ SubmitButton' = [disabled |-> FALSE, label |-> "Register"]
       ]_vars
  /\ (isSubmitting ~> ~isSubmitting)

\* C13's case: a submission has run to its end; the form was filled in and
\* is empty again, and the button is enabled.
C13_Witness ==
  /\ formEvent = "dismiss"
  /\ subs = <<"done">>
  /\ resets = 1
  /\ values.name = <<>>
  /\ ~isSubmitting
  /\ ~SubmitButton.disabled

\* C14: onSubmit is invoked only when every earlier invocation has
\* returned, so at most one invocation is under way.
C14_OneSubmissionAtATime ==
  /\ [](Cardinality({k \in 1..Len(subs) : subs[k] # "done"}) <= 1)
  /\ [][OnSubmitStarts => \A k \in 1..Len(subs) : subs[k] = "done"]_vars

\* C14's case: a second submission is under way after the first one has
\* returned, and the button is disabled.
C14_Witness ==
  /\ Len(subs) = 2
  /\ subs[1] = "done"
  /\ subs[2] = "waiting"
  /\ SubmitButton.disabled

(***************************************************************************)
(* Claims about the Todo component with its per-todo queries (SpecTodo).   *)
(***************************************************************************)

\* A step that starts a fetch of the query ["todo", id].
TodoFetchStarts(id) ==
  todoQuery[id].fetchStatus = "idle" /\ todoQuery'[id].fetchStatus # "idle"

\* The ids query has data and id is in it.
InIdsData(id, data) ==
  data # Undef /\ \E i \in 1..Len(Val(data)) : Val(data)[i] = id

\* C15: a fetch of ["todo", id] starts only in a mounted component whose
\* ids query has succeeded and whose ids data, as the component has it in
\* that render, contains id.
C15_TodoFetchAfterIds ==
  [][\A id \in Ids :
       TodoFetchStarts(id) =>
         /\ page'.mounted
         /\ idsQuery'.data # Undef
         /\ idsQuery'.status # "pending"
         /\ InIdsData(id, idsQuery'.data)
    ]_vars

\* C15's case: the ids query holds [2] and the todo of id 2 is being
\* fetched, that of id 1 is not and never was.
C15_Witness ==
  /\ page.mounted
  /\ idsQuery.data = Def(<<2>>)
  /\ todoQuery[2].fetchStatus = "fetching"
  /\ todoQuery[1] = NewQuery

\* C17, as the claim states it: whenever the list view is rendered, the keys
\* of the <li> items are defined and pairwise distinct.
C17_AsClaimed ==
  ListViewShown =>
    /\ \A i \in 1..Len(ItemKeys) : ItemKeys[i] # Undef
    /\ \A i, j \in 1..Len(ItemKeys) : i # j => ItemKeys[i] # ItemKeys[j]

(***************************************************************************)
(* Overlapping optimistic mutations (SpecOptimistic).                      *)
(***************************************************************************)

\* C18, as the claim states it: when a mutation's onError rolls back, the
\* optimistic todo of every other mutation that is still in flight stays in
\* the cache if it was there, and the optimistic todo of a mutation that
\* was rolled back before does not come back into the cache.
C18_AsClaimed ==
  [][\A m \in Mutations :
       OnErrorStep(m) =>
         \A k \in Mutations \ {m} :
           /\ (muts[k].pc \in InFlight /\ InCache(muts[k].todo, cache))
                => InCache(muts[k].todo, cache')
           /\ (muts[k].pc = "error" /\ ~InCache(muts[k].todo, cache))
                => ~InCache(muts[k].todo, cache')
    ]_vars
====
